---- MODULE Spec2Model ----
(***************************************************************************)
(* State-machine model of the golf league schedule optimizer               *)
(* (src/tools.py): the candidate generator generate_initial_schedule, the  *)
(* three scorers, calculate_total_score and the random-restart loop        *)
(* optimize_schedule.                                                      *)
(*                                                                         *)
(* A schedule (pandas DataFrame) is a function player -> date -> cell,     *)
(* a cell being one of the strings "NaN" (unset), "S" and "X".  A date     *)
(* label "dd-Mon" is the record [day, mon]; parsing it (format '%d-%b')    *)
(* looks the abbreviation up in the month table.                           *)
(* random.shuffle is modelled by drawing the next pair of the shuffled     *)
(* list nondeterministically from the pairs not yet visited: every         *)
(* permutation of the list is one behaviour.                               *)
(* A Python exception is the outcome pc = "error" with its class in err.   *)
(***************************************************************************)
EXTENDS Integers, Sequences, FiniteSets

VARIABLES
    players,               \* list of player names (argument)
    dates,                 \* list of date labels (argument)
    original_schedule_df,  \* the original grid (argument, never written)
    schedule,              \* generate_initial_schedule: the working copy
    player_dates,          \* generate_initial_schedule: pairs still to visit
    pc,                    \* position of the running function
    err,                   \* class of the exception raised, "" when none
    iterations,            \* optimize_schedule: argument
    i,                     \* optimize_schedule: rounds completed
    best_schedule,         \* optimize_schedule: retained grid, None at first
    best_score,            \* optimize_schedule: retained score
    candidates,            \* history: <<schedule, score>> of every round
    fn,                    \* scorer under test
    ret                    \* value returned by the scorer under test

vars == <<players, dates, original_schedule_df, schedule, player_dates, pc,
          err, iterations, i, best_schedule, best_score, candidates,
          fn, ret>>

\* None is the empty tuple; a value that may be None is <<>> or <<value>>
None == <<>>

(***************************************************************************)
(* Program constants.                                                      *)
(***************************************************************************)
\* tools.py:31  schedule[date].value_counts()['S'] < 4
MaxPerDate == 4
\* tools.py:32  schedule.loc[player].value_counts()['S'] <= 9
MaxRow == 9

(***************************************************************************)
(* Bounds of the model.                                                    *)
(***************************************************************************)
\* players of a generated roster
NumPlayers == 6
\* unset cells of one column of an original grid
MaxUnset == 3
\* players of a scored roster
MaxScorePlayers == 3
\* rounds of optimize_schedule
MaxIterations == 2

(***************************************************************************)
(* Helpers over sequences and grids.                                       *)
(***************************************************************************)
Range(s) == {s[k] : k \in DOMAIN s}

RECURSIVE SumOver(_, _)
SumOver(f, S) ==
    IF S = {} THEN 0
    ELSE LET x == CHOOSE y \in S : TRUE IN f[x] + SumOver(f, S \ {x})

\* number of 'S' in the column schedule[date]: value_counts()['S'] when the
\* column holds an 'S', and 0 when 'S' in schedule[date].values is false
ColCount(sched, date) == Cardinality({p \in DOMAIN sched : sched[p][date] = "S"})

\* number of 'S' in the row schedule.loc[player]
RowCount(sched, player) ==
    Cardinality({d \in DOMAIN sched[player] : sched[player][d] = "S"})

(***************************************************************************)
(* generate_initial_schedule                                               *)
(***************************************************************************)
\* lines 22-26: the (player, date) pairs whose cell is 'NaN'
UnsetPairs(ps, ds, sched) ==
    {pd \in Range(ps) \X Range(ds) : sched[pd[1]][pd[2]] = "NaN"}

\* variant: the column is excluded without testing each cell for 'NaN'
ExcludeColumnAll(sched, ps, date) ==
    [p \in DOMAIN sched |->
        IF p \in Range(ps) THEN [sched[p] EXCEPT ![date] = "X"] ELSE sched[p]]

\* lines 37-39: every cell of the column that is still 'NaN' becomes 'X'
ExcludeColumn(sched, ps, date) ==
    [p \in DOMAIN sched |->
        IF p \in Range(ps) /\ sched[p][date] = "NaN"
        THEN [sched[p] EXCEPT ![date] = "X"]
        ELSE sched[p]]

\* variant: <= 4 in place of < 4
HasRoomInclusive(sched, date) == ColCount(sched, date) <= MaxPerDate

\* line 31: schedule[date].value_counts()['S'] < 4
HasRoom(sched, date) == ColCount(sched, date) < MaxPerDate

\* line 32: schedule.loc[player].value_counts()['S'] <= 9
RowAllows(sched, player) == RowCount(sched, player) <= MaxRow

\* variant: only the visited cell is excluded
FullBranchOnlyPair(sched, ps, player, date) ==
    IF sched[player][date] = "NaN"
    THEN [sched EXCEPT ![player][date] = "X"]
    ELSE sched

\* lines 36-39: the branch taken when the column holds 4 'S' or more
FullBranch(sched, ps, player, date) == ExcludeColumn(sched, ps, date)

\* lines 32-35: the branch taken when the column holds 1 to 3 'S'.
\* value_counts() of a row without 'S' has no key 'S': indexing it raises
\* KeyError, unless the first conjunct (the cell is 'NaN') is already false.
RoomBranch(sched, player, date) ==
    IF sched[player][date] # "NaN"
    THEN [sched |-> sched, err |-> ""]
    ELSE IF RowCount(sched, player) = 0
         THEN [sched |-> sched, err |-> "KeyError"]
         ELSE IF RowAllows(sched, player)
              THEN [sched |-> [sched EXCEPT ![player][date] = "S"], err |-> ""]
              ELSE [sched |-> [sched EXCEPT ![player][date] = "X"], err |-> ""]

\* lines 30-41: the body of the loop for one pair.  The result is the grid
\* after the body and the exception it raised, if any.
VisitPair(sched, ps, player, date) ==
    IF ColCount(sched, date) > 0                            \* line 30
    THEN IF HasRoom(sched, date)                            \* line 31
         THEN RoomBranch(sched, player, date)
         ELSE [sched |-> FullBranch(sched, ps, player, date), err |-> ""]
    ELSE [sched |-> [sched EXCEPT ![player][date] = "S"], err |-> ""] \* line 41

(***************************************************************************)
(* The scorers.  A scorer returns [err, val]: err is the class of the      *)
(* exception raised ("" when none) and val the value returned.  Scores are *)
(* kept exact: a quotient is [num, den], a standard deviation is kept as   *)
(* its square.  schedule.columns is passed as cols.  The rounding of        *)
(* floating-point arithmetic is not modelled: scores are real numbers.     *)
(***************************************************************************)
Ok(v) == [err |-> "", val |-> v]
Raise(e) == [err |-> e, val |-> None]

\* lines 64-75: played_with_counts[p][q], the dates on which both play
PlayedWith(sched, cols, p, q) ==
    Cardinality({d \in Range(cols) : sched[p][d] = "S" /\ sched[q][d] = "S"})

\* lines 60-83: the sum of the counters over the ordered pairs, divided by
\* possible_pairs = n(n-1)/2; the division raises when that is 0
calculate_round_robbin_score(sched, cols, ps) ==
    LET n == Len(ps)
        possible_pairs == (n * (n - 1)) \div 2
        ordered == {pq \in Range(ps) \X Range(ps) : pq[1] # pq[2]}
        round_robin_score ==
            SumOver([pq \in ordered |-> PlayedWith(sched, cols, pq[1], pq[2])],
                    ordered)
    IN IF possible_pairs = 0
       THEN Raise("ZeroDivisionError")
       ELSE Ok([num |-> round_robin_score, den |-> possible_pairs])

\* lines 98-102: player_match_counts
MatchCounts(sched, cols, ps) ==
    [p \in Range(ps) |->
        Cardinality({d \in Range(cols) : sched[p][d] = "S"})]

\* variant: the population standard deviation (ddof = 0)
SeriesStdPopulation(counts) ==
    LET n == Cardinality(DOMAIN counts)
        total == SumOver(counts, DOMAIN counts)
    IN [nan |-> FALSE,
        num |-> SumOver([p \in DOMAIN counts |->
                           (n * counts[p] - total) * (n * counts[p] - total)],
                        DOMAIN counts),
        den |-> n * n * n]

\* line 107: pd.Series(match_counts).std(), the sample standard deviation
\* (pandas' default ddof = 1), as its square num/den:
\* sum((c - mean)^2) / (n - 1) = sum((n*c - total)^2) / (n^2 * (n - 1)).
\* It is NaN for a single value.
SeriesStd(counts) ==
    LET n == Cardinality(DOMAIN counts)
        total == SumOver(counts, DOMAIN counts)
    IN IF n = 1
       THEN [nan |-> TRUE, num |-> 0, den |-> 1]
       ELSE [nan |-> FALSE,
             num |-> SumOver([p \in DOMAIN counts |->
                                (n * counts[p] - total) * (n * counts[p] - total)],
                             DOMAIN counts),
             den |-> n * n * (n - 1)]

\* lines 98-113: len(schedule.columns) - std_dev, kept as
\* [nan, nd, num, den] = nd - sqrt(num/den)
calculate_balance_score(sched, cols, ps) ==
    LET counts == MatchCounts(sched, cols, ps)
        std_dev == IF Len(ps) > 0                          \* line 106
                   THEN SeriesStd(counts)
                   ELSE [nan |-> FALSE, num |-> 0, den |-> 1]
    IN Ok([nan |-> std_dev.nan, nd |-> Len(cols),
           num |-> std_dev.num, den |-> std_dev.den])

\* the abbreviations '%b' parses, by month number
MonthAbbr == <<"Jan", "Feb", "Mar", "Apr", "May", "Jun",
               "Jul", "Aug", "Sep", "Oct", "Nov", "Dec">>

\* line 129: pd.to_datetime(dates, format='%d-%b') and .month
MonthOf(label) == CHOOSE m \in DOMAIN MonthAbbr : MonthAbbr[m] = label.mon

\* variant: the months of the docstring (May, June, July)
AidanMonthsDocstring == {5, 6, 7}

\* line 131: dt_date.month in [4, 5, 6, 7]
AidanMonths == {4, 5, 6, 7}

\* lines 128-133: schedule.loc['Aidan', date] is evaluated only for a date
\* of those months ("and" short-circuits) and raises KeyError when the
\* grid has no row 'Aidan'
calculate_aidan_score(sched, ps, ds) ==
    IF \E k \in DOMAIN ds :
           MonthOf(ds[k]) \in AidanMonths /\ "Aidan" \notin DOMAIN sched
    THEN Raise("KeyError")
    ELSE Ok(Cardinality({k \in DOMAIN ds :
                           /\ MonthOf(ds[k]) \in AidanMonths
                           /\ sched["Aidan"][ds[k]] = "S"}))

\* line 153: the weights, in tenths
WBalance == 4
WRoundRobin == 3
WAidan == 3

\* a score is kept as [nan, a, v, scale] = (a - sqrt(v)) / scale, with
\* scale = 10 * n * (n - 1) for the roster of n players
Scale(ps) == 10 * Len(ps) * (Len(ps) - 1)
IntScore(k, ps) == [nan |-> FALSE, a |-> k * Scale(ps), v |-> 0, scale |-> Scale(ps)]

\* lines 148-154.  With n players, times 10 n (n-1):
\*   0.4 * (nd - sqrt(num/den)) -> 4 nd n (n-1) - sqrt(16 num (n-1))
\*   0.3 * (rr.num / rr.den)    -> 3 * rr.num * 2
\*   0.3 * aidan                -> 3 * aidan * n (n-1)
calculate_total_score(sched, cols, ps, ds) ==
    LET n == Len(ps)
        round_robin_score == calculate_round_robbin_score(sched, cols, ps)
        balance_score == calculate_balance_score(sched, cols, ps)
        aidan_score == calculate_aidan_score(sched, ps, ds)
    IN IF round_robin_score.err # "" THEN Raise(round_robin_score.err)
       ELSE IF aidan_score.err # "" THEN Raise(aidan_score.err)
       ELSE Ok([nan |-> balance_score.val.nan,
                a |-> WBalance * balance_score.val.nd * n * (n - 1)
                      + WRoundRobin * round_robin_score.val.num * 2
                      + WAidan * aidan_score.val * n * (n - 1),
                v |-> WBalance * WBalance * balance_score.val.num * (n - 1),
                scale |-> Scale(ps)])

\* x > y for two scores of the same scale, without taking a root:
\* x.a - sqrt(x.v) > y.a - sqrt(y.v)  iff  d + sqrt(y.v) > sqrt(x.v)
ScoreGt(x, y) ==
    LET d == x.a - y.a
        e == x.v - y.v - d * d
        f == y.v - x.v - d * d
    IN IF d >= 0
       THEN e < 0 \/ (d > 0 /\ 4 * d * d * y.v > e * e)
       ELSE f > 0 /\ f * f > 4 * d * d * x.v

(***************************************************************************)
(* Inputs.                                                                 *)
(***************************************************************************)
PlayerPool == <<"Aidan", "Bob", "Cal", "Dan", "Eli", "Fay", "Gus", "Hal">>

\* the two open dates of the season and MaxRow + 1 dates already played
OpenDates == <<[day |-> 1, mon |-> "Apr"], [day |-> 1, mon |-> "Aug"]>>
HistDates == [k \in 1..(MaxRow + 1) |-> [day |-> k + 1, mon |-> "Sep"]]

\* a column whose first s players (in the order ord) hold 'S', the next x
\* hold 'X' and the others are unset
ColumnOf(ord, s, x) ==
    [p \in Range(ord) |->
        LET k == CHOOSE j \in DOMAIN ord : ord[j] = p
        IN IF k <= s THEN "S" ELSE IF k <= s + x THEN "X" ELSE "NaN"]

Reverse(s) == [k \in DOMAIN s |-> s[Len(s) + 1 - k]]

\* number of matches already played: h for the first half of the players,
\* l for the others
HistLevels == {0, 1, MaxRow, MaxRow + 1}
HistOf(ps, h, l) ==
    [p \in Range(ps) |->
        IF (CHOOSE j \in DOMAIN ps : ps[j] = p) <= Len(ps) \div 2 THEN h ELSE l]

\* the (s, x) of the columns of n cells with at most MaxUnset unset ones
Shapes(n) ==
    {t \in (0..n) \X (0..n) : t[1] + t[2] <= n /\ n - t[1] - t[2] <= MaxUnset}

GenGrids(ps) ==
    {[p \in Range(ps) |->
        [d \in Range(OpenDates) \cup Range(HistDates) |->
            IF d = OpenDates[1] THEN c1[p]
            ELSE IF d = OpenDates[2] THEN c2[p]
            ELSE LET k == CHOOSE j \in DOMAIN HistDates : HistDates[j] = d
                 IN IF k <= hist[p] THEN "S" ELSE "X"]] :
        c1 \in {ColumnOf(ps, sx[1], sx[2]) : sx \in Shapes(Len(ps))},
        c2 \in {ColumnOf(Reverse(ps), sx[1], sx[2]) : sx \in Shapes(Len(ps))},
        hist \in {HistOf(ps, hl[1], hl[2]) : hl \in HistLevels \X HistLevels}}

OptIdle ==
    /\ iterations = 0
    /\ i = 0
    /\ best_schedule = None
    /\ best_score = None
    /\ candidates = <<>>

ScoreIdle == fn = "" /\ ret = None

\* generate_initial_schedule(players, dates, original_schedule_df) is called:
\* lines 19-27
GenInit ==
    /\ players = SubSeq(PlayerPool, 1, NumPlayers)
    /\ dates = OpenDates \o HistDates
    /\ original_schedule_df \in GenGrids(players)
    /\ schedule = original_schedule_df
    /\ player_dates = UnsetPairs(players, dates, schedule)
    /\ pc = "gen"
    /\ err = ""
    /\ OptIdle
    /\ ScoreIdle

\* one iteration of the loop of line 29
Visit ==
    /\ pc = "gen"
    /\ \E pd \in player_dates :
        LET r == VisitPair(schedule, players, pd[1], pd[2])
        IN /\ schedule' = r.sched
           /\ player_dates' = player_dates \ {pd}
           /\ err' = r.err
           /\ pc' = IF r.err = "" THEN "gen" ELSE "error"
    /\ UNCHANGED <<players, dates, original_schedule_df, iterations, i,
                   best_schedule, best_score, candidates, fn, ret>>

\* line 44: return schedule
GenReturn ==
    /\ pc = "gen"
    /\ player_dates = {}
    /\ pc' = "returned"
    /\ UNCHANGED <<players, dates, original_schedule_df, schedule,
                   player_dates, err, iterations, i, best_schedule,
                   best_score, candidates, fn, ret>>

GenNext == Visit \/ GenReturn

SpecGen == GenInit /\ [][GenNext]_vars

(***************************************************************************)
(* The scorers applied to a grid (SpecScore).                              *)
(***************************************************************************)
ScoreDates == OpenDates \o <<[day |-> 2, mon |-> "Sep"]>>

\* the contiguous sub-lists of s, the empty one included
SubLists(s) == {SubSeq(s, a, b) : a \in 1..(Len(s) + 1), b \in 0..Len(s)}

\* rosters of 0 to MaxScorePlayers players, with and without 'Aidan'
ScoreRosters ==
    {SubSeq(PlayerPool, a, a + n - 1) : a \in {1, 2}, n \in 0..MaxScorePlayers}

ScoreInit ==
    /\ players \in ScoreRosters
    /\ dates \in SubLists(ScoreDates)
    /\ original_schedule_df \in [Range(players) -> [Range(dates) -> {"S", "X"}]]
    /\ schedule = original_schedule_df
    /\ player_dates = {}
    /\ pc = "score"
    /\ err = ""
    /\ OptIdle
    /\ ScoreIdle

Called(name, r) ==
    /\ pc = "score"
    /\ fn' = name
    /\ ret' = r
    /\ err' = r.err
    /\ pc' = IF r.err = "" THEN "returned" ELSE "error"
    /\ UNCHANGED <<players, dates, original_schedule_df, schedule,
                   player_dates, iterations, i, best_schedule, best_score,
                   candidates>>

CallRoundRobin ==
    Called("calculate_round_robbin_score",
           calculate_round_robbin_score(schedule, dates, players))

CallBalance ==
    Called("calculate_balance_score",
           calculate_balance_score(schedule, dates, players))

CallAidan ==
    Called("calculate_aidan_score",
           calculate_aidan_score(schedule, players, dates))

CallTotal ==
    Called("calculate_total_score",
           calculate_total_score(schedule, dates, players, dates))

ScoreNext == CallRoundRobin \/ CallBalance \/ CallAidan \/ CallTotal

SpecScore == ScoreInit /\ [][ScoreNext]_vars

(***************************************************************************)
(* optimize_schedule (SpecOpt).                                            *)
(***************************************************************************)
\* line 172: best_score = -1
SentinelScore == -1

\* variant: the search starts from a best score of 0
InitialBestZero(ps) == IntScore(0, ps)

\* line 172, at the scale of the scores of the roster
InitialBest(ps) == IntScore(SentinelScore, ps)

\* variant: >= in place of >
BetterOrEqual(current_score, best) == ~ScoreGt(best, current_score)

\* line 182: current_score > best_score
Better(current_score, best) == ScoreGt(current_score, best)

OptRosters == {<<"Aidan", "Bob", "Cal">>, <<"Bob", "Cal", "Dan">>, <<"Aidan">>}

\* optimize_schedule(players, dates, original_schedule_df, iterations) is
\* called: lines 171-173
OptInit ==
    /\ players \in OptRosters
    /\ \/ /\ dates = OpenDates \o HistDates
          /\ original_schedule_df \in GenGrids(players)
       \/ /\ dates = <<>>
          /\ original_schedule_df = [p \in Range(players) |-> [d \in {} |-> "NaN"]]
    /\ iterations \in {0, MaxIterations}
    /\ i = 0
    /\ best_schedule = None
    /\ best_score = InitialBest(players)
    /\ candidates = <<>>
    /\ schedule = original_schedule_df
    /\ player_dates = {}
    /\ pc = "loop"
    /\ err = ""
    /\ ScoreIdle

\* lines 175-179: a round starts and generate_initial_schedule is called
\* (lines 19-27)
StartRound ==
    /\ pc = "loop"
    /\ i < iterations
    /\ schedule' = original_schedule_df
    /\ player_dates' = UnsetPairs(players, dates, original_schedule_df)
    /\ pc' = "gen"
    /\ UNCHANGED <<players, dates, original_schedule_df, err, iterations, i,
                   best_schedule, best_score, candidates, fn, ret>>

\* lines 44 and 180-184: the candidate is returned and scored, and replaces
\* the best when its score is higher
FinishRound ==
    /\ pc = "gen"
    /\ player_dates = {}
    /\ LET current_score == calculate_total_score(schedule, dates, players, dates)
       IN IF current_score.err # ""
          THEN /\ pc' = "error"
               /\ err' = current_score.err
               /\ UNCHANGED <<i, best_schedule, best_score, candidates>>
          ELSE /\ pc' = "loop"
               /\ err' = ""
               /\ i' = i + 1
               /\ candidates' = Append(candidates,
                                       [schedule |-> schedule,
                                        score |-> current_score.val])
               /\ IF Better(current_score.val, best_score)
                  THEN /\ best_score' = current_score.val
                       /\ best_schedule' = <<schedule>>
                  ELSE UNCHANGED <<best_schedule, best_score>>
    /\ UNCHANGED <<players, dates, original_schedule_df, schedule,
                   player_dates, iterations, fn, ret>>

\* line 187: return best_schedule
OptReturn ==
    /\ pc = "loop"
    /\ i = iterations
    /\ pc' = "done"
    /\ UNCHANGED <<players, dates, original_schedule_df, schedule,
                   player_dates, err, iterations, i, best_schedule,
                   best_score, candidates, fn, ret>>

OptNext == StartRound \/ Visit \/ FinishRound \/ OptReturn

SpecOpt == OptInit /\ [][OptNext]_vars

(***************************************************************************)
(* Properties of generate_initial_schedule (SpecGen).                      *)
(***************************************************************************)
Max(a, b) == IF a >= b THEN a ELSE b

\* C1: every cell that is 'S' or 'X' in the original grid holds the same
\* value in the working grid at every step of the generation and in the
\* grid returned.
C1_PrefilledKept ==
    \A p \in Range(players), d \in Range(dates) :
        original_schedule_df[p][d] # "NaN"
            => schedule[p][d] = original_schedule_df[p][d]

\* a returned grid with a column that held an 'S' and an 'X' from the start
\* and in which the generation scheduled one cell and excluded another
C1_Witness ==
    /\ pc = "returned"
    /\ \E d \in Range(dates) :
        /\ \E p \in Range(players) : original_schedule_df[p][d] = "S"
        /\ \E p \in Range(players) : original_schedule_df[p][d] = "X"
        /\ \E p \in Range(players) :
              original_schedule_df[p][d] = "NaN" /\ schedule[p][d] = "S"
        /\ \E p \in Range(players) :
              original_schedule_df[p][d] = "NaN" /\ schedule[p][d] = "X"

\* C2: the generation runs to completion (no exception) and the grid it
\* returns has no 'NaN' cell.
C2_Totality ==
    /\ pc # "error"
    /\ pc = "returned" =>
          \A p \in Range(players), d \in Range(dates) : schedule[p][d] # "NaN"

\* C3 as claimed: whatever the original grid, no column of the returned grid
\* holds more than 4 'S'.
C3_AtMostFour ==
    pc = "returned" => \A d \in Range(dates) : ColCount(schedule, d) <= 4

\* C3 as amended: at every step, a column holds at most 4 'S', or at most
\* the number of 'S' it held in the original grid when that is more.
C3_AtMostFourOrOriginal ==
    \A d \in Range(dates) :
        ColCount(schedule, d)
            <= Max(4, ColCount(original_schedule_df, d))

\* a returned grid with a column the generation filled up to 4 'S' and in
\* which it then excluded a cell
C3_Witness ==
    /\ pc = "returned"
    /\ \E d \in Range(dates) :
        /\ ColCount(original_schedule_df, d) < 4
        /\ ColCount(schedule, d) = 4
        /\ \E p \in Range(players) :
              original_schedule_df[p][d] = "NaN" /\ schedule[p][d] = "X"

\* C4: a visit of an unset cell whose column holds 1 to 3 'S' raises nothing
\* and makes the cell 'S' when the row holds 9 'S' or fewer (0 included),
\* 'X' when it holds more.
C4_RoomPolicy ==
    [][\A pd \in player_dates :
         ( /\ pc = "gen"
           /\ player_dates' = player_dates \ {pd}
           /\ schedule[pd[1]][pd[2]] = "NaN"
           /\ ColCount(schedule, pd[2]) \in 1..3 )
         => /\ err' = ""
            /\ schedule' = [schedule EXCEPT ![pd[1]][pd[2]] =
                               IF RowCount(schedule, pd[1]) <= 9
                               THEN "S" ELSE "X"]]_vars

\* C10: a visit of a pair whose column holds 4 'S' or more turns every
\* 'NaN' cell of that column, and nothing else, into 'X'; a visit of a pair
\* whose cell is no longer 'NaN' (a pair of a column excluded earlier)
\* changes no cell.
C10_BulkExclusion ==
    [][\A pd \in player_dates :
         (pc = "gen" /\ player_dates' = player_dates \ {pd})
         => /\ ColCount(schedule, pd[2]) >= 4
                => schedule' =
                     [p \in DOMAIN schedule |->
                        [d \in DOMAIN schedule[p] |->
                           IF d = pd[2] /\ schedule[p][d] = "NaN"
                           THEN "X" ELSE schedule[p][d]]]
            /\ schedule[pd[1]][pd[2]] # "NaN" => schedule' = schedule]_vars

\* two cells of a full column excluded together: one of them has not been
\* visited yet
C10_Witness ==
    /\ pc = "gen"
    /\ \E d \in Range(dates) : \E p, q \in Range(players) :
        /\ p # q
        /\ original_schedule_df[p][d] = "NaN" /\ schedule[p][d] = "X"
        /\ original_schedule_df[q][d] = "NaN" /\ schedule[q][d] = "X"
        /\ ColCount(schedule, d) >= 4
        /\ <<p, d>> \notin player_dates
        /\ <<q, d>> \in player_dates

(***************************************************************************)
(* Properties of the scorers (SpecScore).                                  *)
(***************************************************************************)
InTargetMonths(ds) == \E k \in DOMAIN ds : ds[k].mon \in {"Apr", "May", "Jun", "Jul"}

\* C6 as claimed: on a grid without a row 'Aidan', calculate_aidan_score
\* and calculate_total_score raise a lookup error whatever the dates are.
C6_AlwaysLookupError ==
    ( /\ fn \in {"calculate_aidan_score", "calculate_total_score"}
      /\ "Aidan" \notin Range(players) )
    => ret.err = "KeyError"

\* C6 as amended: on a grid without a row 'Aidan', calculate_aidan_score
\* raises KeyError exactly when some date is in April to July and returns 0
\* otherwise; so does calculate_total_score when the roster has two players
\* or more, and with fewer it raises ZeroDivisionError first.
C6_LookupErrorIffTargetMonth ==
    "Aidan" \notin Range(players) =>
        /\ fn = "calculate_aidan_score" =>
              IF InTargetMonths(dates)
              THEN ret.err = "KeyError"
              ELSE ret.err = "" /\ ret.val = 0
        /\ fn = "calculate_total_score" =>
              IF Len(players) < 2
              THEN ret.err = "ZeroDivisionError"
              ELSE ret.err = (IF InTargetMonths(dates) THEN "KeyError" ELSE "")

\* the total score of a three-player grid without 'Aidan' over an April and
\* an August date has raised KeyError
C6_Witness ==
    /\ fn = "calculate_total_score"
    /\ "Aidan" \notin Range(players)
    /\ Len(players) = 3
    /\ dates = OpenDates
    /\ ret.err = "KeyError"

\* C7: with no player, one player or no date, calculate_round_robbin_score
\* and calculate_balance_score return a value and raise nothing.
C7_DegenerateGuarded ==
    ( /\ fn \in {"calculate_round_robbin_score", "calculate_balance_score"}
      /\ (Len(players) <= 1 \/ dates = <<>>) )
    => ret.err = ""

\* the number of 'S' of a row, and the sums the standard deviation is made of
CountS(p) == Cardinality({k \in DOMAIN dates : schedule[p][dates[k]] = "S"})
SumCounts == SumOver([p \in Range(players) |-> CountS(p)], Range(players))
SumSquares == SumOver([p \in Range(players) |-> CountS(p) * CountS(p)], Range(players))

\* C8 as claimed: with at least one player the balance score is the number
\* of dates minus the population standard deviation:
\* (nd - score)^2 = sum((c - mean)^2) / n = (n * sum(c^2) - sum(c)^2) / n^2.
C8_PopulationStd ==
    (fn = "calculate_balance_score" /\ Len(players) >= 1) =>
        /\ ~ret.val.nan
        /\ ret.val.nd = Len(dates)
        /\ ret.val.num * Len(players) * Len(players)
             = ret.val.den * (Len(players) * SumSquares - SumCounts * SumCounts)

\* C8 as amended: with two players or more the balance score is the number
\* of dates minus the sample standard deviation,
\* (nd - score)^2 = sum((c - mean)^2) / (n - 1), so it is the number of
\* dates exactly when all counts are equal; with one player it is NaN.
C8_SampleStd ==
    fn = "calculate_balance_score" =>
        /\ Len(players) >= 2 =>
              /\ ~ret.val.nan
              /\ ret.val.nd = Len(dates)
              /\ ret.val.num * Len(players) * (Len(players) - 1)
                   = ret.val.den * (Len(players) * SumSquares - SumCounts * SumCounts)
              /\ (\A p, q \in Range(players) : CountS(p) = CountS(q))
                   => ret.val.num = 0
        /\ Len(players) = 1 => ret.val.nan

\* the balance score of a grid whose players have different counts
C8_Witness ==
    /\ fn = "calculate_balance_score"
    /\ Len(players) >= 2
    /\ \E p, q \in Range(players) : CountS(p) # CountS(q)
    /\ ret.val.num > 0

(***************************************************************************)
(* Properties of optimize_schedule (SpecOpt).                              *)
(***************************************************************************)
ScoreEq(x, y) == ~ScoreGt(x, y) /\ ~ScoreGt(y, x)

\* C5: after each round best_score is the highest score of the candidates
\* generated so far and best_schedule the earliest candidate with that
\* score.
C5_BestIsEarliestMax ==
    IF candidates = <<>>
    THEN best_schedule = None
    ELSE \E k \in DOMAIN candidates :
            /\ best_schedule = <<candidates[k].schedule>>
            /\ best_score = candidates[k].score
            /\ \A j \in DOMAIN candidates :
                  ~ScoreGt(candidates[j].score, candidates[k].score)
            /\ \A j \in 1..(k - 1) :
                  ScoreGt(candidates[k].score, candidates[j].score)

\* two rounds gave different grids with the same score: the first is kept
C5_Witness ==
    /\ Len(candidates) >= 2
    /\ candidates[1].schedule # candidates[2].schedule
    /\ ScoreEq(candidates[1].score, candidates[2].score)
    /\ best_schedule = <<candidates[1].schedule>>

\* C9: the score of every candidate is above the sentinel -1, so the first
\* completed round sets best_schedule, and optimize_schedule called with
\* iterations >= 1 returns a generated candidate.
C9_SentinelBelowAll ==
    /\ \A k \in DOMAIN candidates :
          ScoreGt(candidates[k].score, IntScore(-1, players))
    /\ i >= 1 => \E k \in DOMAIN candidates :
                    best_schedule = <<candidates[k].schedule>>
    /\ (pc = "done" /\ iterations >= 1) => best_schedule # None

\* optimize_schedule has returned the candidate of its first round
C9_Witness ==
    /\ pc = "done"
    /\ iterations >= 1
    /\ dates # <<>>
    /\ best_schedule = <<candidates[1].schedule>>

====
